---- MODULE Spec2Model ----
(***************************************************************************)
(* Model of fixerr's record reconstruction engine (src/src/engine.rs).     *)
(*                                                                         *)
(* A field is a sequence of one-character strings, a physical row is a     *)
(* sequence of fields, the output is a sequence of rows.  One step of the  *)
(* model is one iteration of the `for result in reader.records()` loop of  *)
(* reconstruct_records, or its set-up, or its end-of-stream epilogue.      *)
(***************************************************************************)
EXTENDS Integers, Sequences, FiniteSets, TLC

\* ------------------------------------------------------------------ bounds
\* Largest column count a header row or the column-count prompt supplies.
MaxCols == 3

\* Largest number of physical data rows one run pulls from the reader.
MaxRows == 4

\* Longest input string handed to the field normalizer on its own.
MaxLen == 3

\* ------------------------------------------------------------ characters
Space == " "
Tab == "\t"
Newline == "\n"
CarriageReturn == "\r"

\* char::is_whitespace, restricted to the whitespace the model's alphabet has.
Whitespace == {Space, Tab, Newline, CarriageReturn}

\* Only the space character taken as whitespace, as str::split(' ') would.
IsWhitespace_spaceOnly(c) == c = Space

IsWhitespace(c) == c \in Whitespace

\* The alphabet of the strings given to the normalizer.
Chars == {"a", "b"} \cup Whitespace

\* ------------------------------------------------------- the input palette
\* Field contents a physical row of the input may hold: the empty field, a
\* plain word, and a word with trailing whitespace.
EmptyField == <<>>
WordA == <<"a">>
WordB == <<"b", Space>>

\* A csv record holds at least one field (the reader skips blank lines), and a
\* row may be wider than any expected column count.
MaxWidth == MaxCols + 1

Uniform(w, f) == [i \in 1..w |-> f]

FirstThen(w, f, g) == [i \in 1..w |-> IF i = 1 THEN f ELSE g]

\* The rows of one width: first and last field both empty, both non-empty,
\* an empty first field before non-empty ones, and a first field that ends in
\* whitespace.
RowShapes(w) ==
    {Uniform(w, WordA), Uniform(w, EmptyField),
     FirstThen(w, WordB, WordA), FirstThen(w, EmptyField, WordA)}

Rows == UNION {RowShapes(w) : w \in 1..MaxWidth}

\* The rows a stream may hold when `expected` columns are expected: a row
\* wider than that is discarded whatever it holds, so one content per width
\* stands for the over-length rows.
InputRows(expected) ==
    {r \in Rows : Len(r) <= expected \/ r = Uniform(Len(r), WordA)}

\* What the column-count prompt may read from stdin in no-headers mode.
DigitChars == <<"0", "1", "2", "3", "4", "5", "6", "7", "8", "9">>

PromptInputs ==
    {<<>>, <<"x">>, <<"-", "1">>} \cup {<<DigitChars[n + 1]>> : n \in 0..MaxCols}

\* ---------------------------------------------------------------- helpers
Last(s) == s[Len(s)]

Front(s) == SubSeq(s, 1, Len(s) - 1)

\* str::parse::<usize> on the trimmed prompt line: an optional plus sign, then
\* digits only, base ten.
IsDigit(c) == \E n \in 1..10 : DigitChars[n] = c

DigitValue(c) == (CHOOSE n \in 1..10 : DigitChars[n] = c) - 1

RECURSIVE ParseDigits(_, _)
ParseDigits(s, acc) ==
    IF s = <<>> THEN acc ELSE ParseDigits(Tail(s), acc * 10 + DigitValue(Head(s)))

StripPlus(s) == IF s # <<>> /\ Head(s) = "+" THEN Tail(s) ELSE s

ParseUsize(s) ==
    LET digits == StripPlus(s)
    IN  IF digits # <<>> /\ \A i \in 1..Len(digits) : IsDigit(digits[i])
        THEN [ok |-> TRUE, val |-> ParseDigits(digits, 0)]
        ELSE [ok |-> FALSE, val |-> 0]

\* ------------------------------------------------------- field normalizer
\* str::split_whitespace: the maximal runs of non-whitespace characters, in
\* order.  `cur` is the fragment being read.
RECURSIVE SplitFrom(_, _)
SplitFrom(s, cur) ==
    IF s = <<>>
    THEN IF cur = <<>> THEN <<>> ELSE <<cur>>
    ELSE IF IsWhitespace(Head(s))
         THEN IF cur = <<>>
              THEN SplitFrom(Tail(s), <<>>)
              ELSE <<cur>> \o SplitFrom(Tail(s), <<>>)
         ELSE SplitFrom(Tail(s), Append(cur, Head(s)))

split_whitespace(s) == SplitFrom(s, <<>>)

\* [&str]::join(sep)
RECURSIVE join(_, _)
join(parts, sep) ==
    IF parts = <<>> THEN <<>>
    ELSE IF Len(parts) = 1 THEN Head(parts)
    ELSE Head(parts) \o sep \o join(Tail(parts), sep)

\* A normalizer that replaces each adjacent pair of whitespace characters by
\* one space in a single left-to-right pass, instead of tokenizing.
RECURSIVE CollapsePairs(_)
CollapsePairs(s) ==
    IF Len(s) < 2 THEN s
    ELSE IF IsWhitespace(s[1]) /\ IsWhitespace(s[2])
         THEN <<Space>> \o CollapsePairs(Tail(Tail(s)))
         ELSE <<Head(s)>> \o CollapsePairs(Tail(s))

clean_and_normalize_field_pairs(input) == CollapsePairs(input)

clean_and_normalize_field(input) == join(split_whitespace(input), <<Space>>)

\* ------------------------------------------------------------------ state
VARIABLES
    pc,                \* "start", "loop", "done" (Ok returned), "failed" (Err returned)
    header_mode,       \* "HasHeaders" or "NoHeaders"
    expected_columns,  \* the detected column count
    logical_rows,      \* Vec<StringRecord> under construction
    buffer,            \* Vec<String>: the logical row being accumulated
    stats,             \* the caller's Stats
    record,            \* the physical row of the current loop iteration
    consumed,          \* history: items pulled from reader.records()
    group,             \* history: the physical rows stitched into `buffer`
    direct_rows,       \* history: physical rows emitted directly
    fixed_parts,       \* history: physical rows that went into fixed rows
    discarded_parts,   \* history: physical rows discarded, alone or in a group
    full_input,        \* history: the rows consumed, while all were full width
    all_full,          \* history: every row consumed so far was full width
    result,            \* what reconstruct_records returned: Ok(rows) or Err
    tokenizer_error,   \* history: the reader has yielded an Err item
    prompt_line,       \* the trimmed line read by the column-count prompt
    proc_pc,           \* process_csv: "idle", "called", "reconstruct", "ok", "failed"
    out_file,          \* the output file: touched or not, and the rows it holds
    norm_in,           \* normalizer run: the input string
    norm_once,         \* normalizer run: normalize(norm_in)
    norm_twice,        \* normalizer run: normalize(normalize(norm_in))
    norm_calls,        \* normalizer run: times the normalizer was applied
    menu_pc,           \* main: where the interactive program is ("off": not run)
    config,            \* main: the Config
    choice,            \* the value get_menu_choice returned last
    menu_line,         \* the line read last from stdin by a menu or a prompt
    pending_path       \* change_*_file: the path awaiting confirmation

vars ==
    <<pc, header_mode, expected_columns, logical_rows, buffer, stats, record,
      consumed, group, direct_rows, fixed_parts, discarded_parts, full_input,
      all_full, result, tokenizer_error, prompt_line, proc_pc, out_file,
      norm_in, norm_once, norm_twice, norm_calls, menu_pc, config, choice,
      menu_line, pending_path>>

engineVars ==
    <<pc, header_mode, expected_columns, logical_rows, buffer, stats, record,
      consumed, group, direct_rows, fixed_parts, discarded_parts, full_input,
      all_full, result, tokenizer_error, prompt_line>>

procVars == <<proc_pc, out_file>>

normVars == <<norm_in, norm_once, norm_twice, norm_calls>>

menuVars == <<menu_pc, config, choice, menu_line, pending_path>>

\* The value reconstruct_records returns: nothing yet, Ok(rows), or Err(e),
\* which carries no row.
Pending == [tag |-> "Pending", rows |-> <<>>]

Ok(rows) == [tag |-> "Ok", rows |-> rows]

Err == [tag |-> "Err", rows |-> <<>>]

\* An output file that this run has not created, truncated or written.
Untouched == [touched |-> FALSE, rows |-> <<>>]

\* Stats::default()
StatsDefault == [total_rows |-> 0, fixed_rows |-> 0, removed_rows |-> 0]

\* The header row read by reader.headers(): the first record, or the empty
\* record when the input holds no record at all.
Headers == {<<>>} \cup {Uniform(w, WordB) : w \in 1..MaxCols}

\* In has-headers mode an empty header means the input is empty: no data row
\* follows it.
EmptyInput == header_mode = "HasHeaders" /\ expected_columns = 0

EngineInit ==
    /\ pc = "start"
    /\ header_mode \in {"HasHeaders", "NoHeaders"}
    /\ expected_columns = 0
    /\ logical_rows = <<>>
    /\ buffer = <<>>
    /\ stats = StatsDefault
    /\ record = <<>>
    /\ consumed = 0
    /\ group = <<>>
    /\ direct_rows = 0
    /\ fixed_parts = 0
    /\ discarded_parts = 0
    /\ full_input = <<>>
    /\ all_full = TRUE
    /\ result = Pending
    /\ tokenizer_error = FALSE
    /\ prompt_line = <<>>

\* reconstruct_records called on its own, outside process_csv.
ProcIdle ==
    /\ proc_pc = "idle"
    /\ out_file = Untouched

\* Config::default()
ConfigDefault ==
    [delimiter |-> "Comma", header_mode |-> "HasHeaders",
     input_file |-> <<"d", "a", "t", "a", ".", "c", "s", "v">>,
     output_file |-> <<"o", "u", "t", "p", "u", "t", ".", "c", "s", "v">>]

\* The library called on its own, without the interactive program.
MenuIdle ==
    /\ menu_pc = "off"
    /\ config = ConfigDefault
    /\ choice = 0
    /\ menu_line = <<>>
    /\ pending_path = <<>>

NormIdle ==
    /\ norm_in = <<>>
    /\ norm_once = <<>>
    /\ norm_twice = <<>>
    /\ norm_calls = 0

Init == EngineInit /\ ProcIdle /\ NormIdle /\ MenuIdle

\* ------------------------------------------------------ reconstruct_records
\* File::open fails, or reader.headers() / the prompt's I/O fails.
SetupError ==
    /\ pc = "start"
    /\ pc' = "failed"
    /\ result' = Err
    /\ UNCHANGED <<header_mode, expected_columns, logical_rows, buffer, stats,
                   record, consumed, group, direct_rows, fixed_parts,
                   discarded_parts, full_input, all_full, tokenizer_error,
                   prompt_line>>
    /\ UNCHANGED procVars
    /\ UNCHANGED normVars
    /\ UNCHANGED menuVars

\* The header row counted as a data row.
DetectFromHeaders_counted(h) ==
    /\ pc = "start"
    /\ header_mode = "HasHeaders"
    /\ expected_columns' = Len(h)
    /\ logical_rows' = <<h>>
    /\ stats' = [stats EXCEPT !.total_rows = @ + 1]
    /\ pc' = "loop"
    /\ UNCHANGED <<header_mode, buffer, record, consumed, group, direct_rows,
                   fixed_parts, discarded_parts, full_input, all_full, result,
                   tokenizer_error, prompt_line>>
    /\ UNCHANGED procVars
    /\ UNCHANGED normVars
    /\ UNCHANGED menuVars

\* The header row read for its width but not pushed to the output.
DetectFromHeaders_noPush(h) ==
    /\ pc = "start"
    /\ header_mode = "HasHeaders"
    /\ expected_columns' = Len(h)
    /\ logical_rows' = <<>>
    /\ pc' = "loop"
    /\ UNCHANGED <<header_mode, buffer, stats, record, consumed, group,
                   direct_rows, fixed_parts, discarded_parts, full_input, all_full,
                   result, tokenizer_error, prompt_line>>
    /\ UNCHANGED procVars
    /\ UNCHANGED normVars
    /\ UNCHANGED menuVars

\* detect_column_count, has-headers arm, and the push of the header row.
DetectFromHeaders(h) ==
    /\ pc = "start"
    /\ header_mode = "HasHeaders"
    /\ expected_columns' = Len(h)
    /\ logical_rows' = <<h>>
    /\ pc' = "loop"
    /\ UNCHANGED <<header_mode, buffer, stats, record, consumed, group,
                   direct_rows, fixed_parts, discarded_parts, full_input, all_full,
                   result, tokenizer_error, prompt_line>>
    /\ UNCHANGED procVars
    /\ UNCHANGED normVars
    /\ UNCHANGED menuVars

\* detect_column_count, no-headers arm: the prompt line is parsed as usize.
DetectFromPrompt(input) ==
    /\ pc = "start"
    /\ header_mode = "NoHeaders"
    /\ prompt_line' = input
    /\ LET parsed == ParseUsize(input)
       IN  IF parsed.ok
           THEN /\ expected_columns' = parsed.val
                /\ pc' = "loop"
                /\ result' = result
           ELSE /\ expected_columns' = expected_columns
                /\ pc' = "failed"
                /\ result' = Err
    /\ UNCHANGED <<header_mode, logical_rows, buffer, stats, record, consumed,
                   group, direct_rows, fixed_parts, discarded_parts, full_input,
                   all_full, tokenizer_error>>
    /\ UNCHANGED procVars
    /\ UNCHANGED normVars
    /\ UNCHANGED menuVars

\* The over-length check written with >=, and with the bound off by one.
OverLength_ge(rec_len, expected) == rec_len >= expected

OverLength_late(rec_len, expected) == rec_len > expected + 1

\* The immediate over-length check.
OverLength(rec_len, expected) == rec_len > expected

\* Case 1 with the comparison negated, and with <= for ==.
IsCompleteRow_ne(rec_len, expected) == rec_len # expected

IsCompleteRow_le(rec_len, expected) == rec_len <= expected

\* Case 1: the record is a complete row.
IsCompleteRow(rec_len, expected) == rec_len = expected

\* Case 3 written with >=: an over-full buffer is emitted too.
BufferComplete_ge(buf_len, expected) == buf_len >= expected

\* Case 3: the buffer is now a complete row, or holds too many columns.
BufferComplete(buf_len, expected) == buf_len = expected

\* The newline pushed whether or not the buffered field is empty.
StitchFirst_always(last_col, first_part) ==
    last_col \o <<Newline>> \o first_part

\* The too-many-columns check off by one.
BufferOverfull_late(buf_len, expected) == buf_len > expected + 1

BufferOverfull(buf_len, expected) == buf_len > expected

\* Stitching that never inserts the newline.
StitchFirst_nosep(last_col, first_part) == last_col \o first_part

\* Stitch the record's first field onto the buffer's last field.
StitchFirst(last_col, first_part) ==
    IF last_col # <<>>
    THEN last_col \o <<Newline>> \o first_part
    ELSE last_col \o first_part

\* Case 2 as a plain buffer.extend(record): no field is merged.
Stitch_extend(buf, rec) == buf \o rec

\* Case 2 with the remaining fields appended from index 0: the first field is
\* stitched and appended again.
Stitch_repeatFirst(buf, rec) ==
    Append(Front(buf), StitchFirst(Last(buf), rec[1])) \o rec

\* Case 2: the buffer after a record has been stitched onto it.
Stitch(buf, rec) ==
    LET stitched ==
            IF Len(rec) >= 1 /\ Len(buf) >= 1
            THEN Append(Front(buf), StitchFirst(Last(buf), rec[1]))
            ELSE buf
    IN  stitched \o SubSeq(rec, 2, Len(rec))

\* The row count assigned instead of incremented.
CountRow_assign(s) == [s EXCEPT !.total_rows = 1]

\* The loop without its counting statement.
CountRow_none(s) == s

\* stats.total_rows += 1
CountRow(s) == [s EXCEPT !.total_rows = @ + 1]

\* One iteration of the loop over reader.records() on an Ok record.
ProcessRow(r) ==
    /\ pc = "loop"
    /\ ~EmptyInput
    /\ consumed < MaxRows
    /\ consumed' = consumed + 1
    /\ record' = r
    /\ all_full' = (all_full /\ Len(r) = expected_columns)
    /\ full_input' = IF all_full' THEN Append(full_input, r) ELSE <<>>
    /\ IF OverLength(Len(r), expected_columns)
       THEN /\ stats' = [CountRow(stats) EXCEPT !.removed_rows = @ + 1]
            /\ discarded_parts' = discarded_parts + 1
            /\ UNCHANGED <<logical_rows, buffer, group, direct_rows, fixed_parts>>
       ELSE IF buffer = <<>>
       THEN /\ stats' = CountRow(stats)
            /\ IF IsCompleteRow(Len(r), expected_columns)
               THEN /\ logical_rows' = Append(logical_rows, r)
                    /\ direct_rows' = direct_rows + 1
                    /\ UNCHANGED <<buffer, group>>
               ELSE /\ buffer' = buffer \o r
                    /\ group' = <<r>>
                    /\ UNCHANGED <<logical_rows, direct_rows>>
            /\ UNCHANGED <<fixed_parts, discarded_parts>>
       ELSE LET stitched == Stitch(buffer, r)
            IN  IF BufferComplete(Len(stitched), expected_columns)
                THEN /\ logical_rows' = Append(logical_rows, stitched)
                     /\ stats' = [CountRow(stats) EXCEPT !.fixed_rows = @ + 1]
                     /\ buffer' = <<>>
                     /\ group' = <<>>
                     /\ fixed_parts' = fixed_parts + Len(group) + 1
                     /\ UNCHANGED <<direct_rows, discarded_parts>>
                ELSE IF BufferOverfull(Len(stitched), expected_columns)
                THEN /\ stats' = [CountRow(stats) EXCEPT !.removed_rows = @ + 1]
                     /\ buffer' = <<>>
                     /\ group' = <<>>
                     /\ discarded_parts' = discarded_parts + Len(group) + 1
                     /\ UNCHANGED <<logical_rows, direct_rows, fixed_parts>>
                ELSE /\ stats' = CountRow(stats)
                     /\ buffer' = stitched
                     /\ group' = Append(group, r)
                     /\ UNCHANGED <<logical_rows, direct_rows, fixed_parts,
                                    discarded_parts>>
    /\ pc' = "loop"
    /\ UNCHANGED <<header_mode, expected_columns, result, tokenizer_error,
                   prompt_line>>
    /\ UNCHANGED procVars
    /\ UNCHANGED normVars
    /\ UNCHANGED menuVars

\* An Err item that is counted and skipped: the loop goes on to the next row.
ReadError_skip ==
    /\ pc = "loop"
    /\ ~EmptyInput
    /\ consumed < MaxRows
    /\ consumed' = consumed + 1
    /\ stats' = CountRow(stats)
    /\ tokenizer_error' = TRUE
    /\ pc' = "loop"
    /\ UNCHANGED <<header_mode, expected_columns, logical_rows, buffer, record,
                   group, direct_rows, fixed_parts, discarded_parts, full_input,
                   all_full, result, prompt_line>>
    /\ UNCHANGED procVars
    /\ UNCHANGED normVars
    /\ UNCHANGED menuVars

\* One iteration of the loop on an Err item: the row is counted, then `?`
\* returns the error.
ReadError ==
    /\ pc = "loop"
    /\ ~EmptyInput
    /\ consumed < MaxRows
    /\ consumed' = consumed + 1
    /\ stats' = CountRow(stats)
    /\ tokenizer_error' = TRUE
    /\ pc' = "failed"
    /\ result' = Err
    /\ UNCHANGED <<header_mode, expected_columns, logical_rows, buffer, record,
                   group, direct_rows, fixed_parts, discarded_parts, full_input,
                   all_full, prompt_line>>
    /\ UNCHANGED procVars
    /\ UNCHANGED normVars
    /\ UNCHANGED menuVars

\* End of stream that flushes the incomplete row instead of discarding it.
EndOfStream_flush ==
    /\ pc = "loop"
    /\ IF buffer # <<>>
       THEN /\ logical_rows' = Append(logical_rows, buffer)
            /\ stats' = [stats EXCEPT !.fixed_rows = @ + 1]
            /\ fixed_parts' = fixed_parts + Len(group)
       ELSE UNCHANGED <<logical_rows, stats, fixed_parts>>
    /\ pc' = "done"
    /\ result' = Ok(logical_rows')
    /\ UNCHANGED <<header_mode, expected_columns, buffer, record, consumed,
                   group, direct_rows, discarded_parts, full_input, all_full,
                   tokenizer_error, prompt_line>>
    /\ UNCHANGED procVars
    /\ UNCHANGED normVars
    /\ UNCHANGED menuVars

\* End of stream that counts a removal whether or not a row is left over.
EndOfStream_always ==
    /\ pc = "loop"
    /\ stats' = [stats EXCEPT !.removed_rows = @ + 1]
    /\ discarded_parts' = discarded_parts + Len(group)
    /\ pc' = "done"
    /\ result' = Ok(logical_rows)
    /\ UNCHANGED <<header_mode, expected_columns, logical_rows, buffer, record,
                   consumed, group, direct_rows, fixed_parts, full_input, all_full,
                   tokenizer_error, prompt_line>>
    /\ UNCHANGED procVars
    /\ UNCHANGED normVars
    /\ UNCHANGED menuVars

\* The iterator is exhausted: the remaining incomplete row is counted as
\* removed and Ok(logical_rows) is returned.
EndOfStream ==
    /\ pc = "loop"
    /\ IF buffer # <<>>
       THEN /\ stats' = [stats EXCEPT !.removed_rows = @ + 1]
            /\ discarded_parts' = discarded_parts + Len(group)
       ELSE UNCHANGED <<stats, discarded_parts>>
    /\ pc' = "done"
    /\ result' = Ok(logical_rows)
    /\ UNCHANGED <<header_mode, expected_columns, logical_rows, buffer, record,
                   consumed, group, direct_rows, fixed_parts, full_input, all_full,
                   tokenizer_error, prompt_line>>
    /\ UNCHANGED procVars
    /\ UNCHANGED normVars
    /\ UNCHANGED menuVars

Next ==
    \/ SetupError
    \/ \E h \in Headers : DetectFromHeaders(h)
    \/ \E input \in PromptInputs : DetectFromPrompt(input)
    \/ \E r \in InputRows(expected_columns) : ProcessRow(r)
    \/ ReadError
    \/ EndOfStream

Spec == Init /\ [][Next]_vars

\* ------------------------------------------------- calculate_success_rate
\* The success rate as the exact fraction num / den of the f64 computation
\* (successful / total) * 100.  `underflow` tells that the usize subtraction
\* total_rows - removed_rows went below zero (a panic, or a wrapped value).
calculate_success_rate(s) ==
    IF s.total_rows = 0
    THEN [underflow |-> FALSE, num |-> 0, den |-> 1]
    ELSE IF s.removed_rows > s.total_rows
    THEN [underflow |-> TRUE, num |-> 0, den |-> 1]
    ELSE [underflow |-> FALSE,
          num |-> (s.total_rows - s.removed_rows) * 100,
          den |-> s.total_rows]

\* ------------------------------------------------------------ process_csv
\* The rows of a stream that process_csv reads: those whose first field is
\* not empty.
ProcRows(expected) == {r \in InputRows(expected) : r[1] # EmptyField}

\* write_output_csv applies the normalizer to every field of a record.
NormalizeRow(row) == [i \in 1..Len(row) |-> clean_and_normalize_field(row[i])]

\* The first record (the header row) written as it is, the others normalized.
WrittenRows_rawFirst(rows) ==
    [i \in 1..Len(rows) |-> IF i = 1 THEN rows[i] ELSE NormalizeRow(rows[i])]

\* The records write_output_csv hands to the writer, in order.
WrittenRows(rows) == [i \in 1..Len(rows) |-> NormalizeRow(rows[i])]

ProcInit ==
    /\ EngineInit
    /\ NormIdle
    /\ MenuIdle
    /\ proc_pc = "called"
    /\ out_file = Untouched

\* The input file does not exist: process_csv returns the error at once.
InputMissing ==
    /\ proc_pc = "called"
    /\ proc_pc' = "failed"
    /\ UNCHANGED out_file
    /\ UNCHANGED engineVars
    /\ UNCHANGED normVars
    /\ UNCHANGED menuVars

\* The output file opened before the reconstruction is run.
BeginReconstruct_openFirst ==
    /\ proc_pc = "called"
    /\ proc_pc' = "reconstruct"
    /\ out_file' = [touched |-> TRUE, rows |-> <<>>]
    /\ UNCHANGED engineVars
    /\ UNCHANGED normVars
    /\ UNCHANGED menuVars

\* The input file exists: Stats::default() and the call of
\* reconstruct_records.
BeginReconstruct ==
    /\ proc_pc = "called"
    /\ proc_pc' = "reconstruct"
    /\ UNCHANGED out_file
    /\ UNCHANGED engineVars
    /\ UNCHANGED normVars
    /\ UNCHANGED menuVars

\* The steps of reconstruct_records, run inside process_csv.
Reconstructing ==
    /\ proc_pc = "reconstruct"
    /\ \/ SetupError
       \/ \E h \in Headers : DetectFromHeaders(h)
       \/ \E input \in PromptInputs : DetectFromPrompt(input)
       \/ \E r \in ProcRows(expected_columns) : ProcessRow(r)
       \/ ReadError
       \/ EndOfStream

\* reconstruct_records returned Err: `?` returns it from process_csv.
ReconstructFailed ==
    /\ proc_pc = "reconstruct"
    /\ result.tag = "Err"
    /\ proc_pc' = "failed"
    /\ UNCHANGED out_file
    /\ UNCHANGED engineVars
    /\ UNCHANGED normVars
    /\ UNCHANGED menuVars

\* write_output_csv fails to create the output file.
WriteOpenFailed ==
    /\ proc_pc = "reconstruct"
    /\ result.tag = "Ok"
    /\ proc_pc' = "failed"
    /\ UNCHANGED out_file
    /\ UNCHANGED engineVars
    /\ UNCHANGED normVars
    /\ UNCHANGED menuVars

\* write_output_csv creates (truncates) the output file and fails on a write
\* or on the flush: any prefix of the records may have reached the file.
WriteFailed(k) ==
    /\ proc_pc = "reconstruct"
    /\ result.tag = "Ok"
    /\ k \in 0..Len(result.rows)
    /\ out_file' = [touched |-> TRUE,
                    rows |-> SubSeq(WrittenRows(result.rows), 1, k)]
    /\ proc_pc' = "failed"
    /\ UNCHANGED engineVars
    /\ UNCHANGED normVars
    /\ UNCHANGED menuVars

\* write_output_csv writes every record and flushes; the summary is shown.
WriteOutput ==
    /\ proc_pc = "reconstruct"
    /\ result.tag = "Ok"
    /\ out_file' = [touched |-> TRUE, rows |-> WrittenRows(result.rows)]
    /\ proc_pc' = "ok"
    /\ UNCHANGED engineVars
    /\ UNCHANGED normVars
    /\ UNCHANGED menuVars

ProcNext ==
    \/ InputMissing
    \/ BeginReconstruct
    \/ Reconstructing
    \/ ReconstructFailed
    \/ WriteOpenFailed
    \/ \E k \in 0..(MaxRows + 1) : WriteFailed(k)
    \/ WriteOutput

ProcSpec == ProcInit /\ [][ProcNext]_vars

\* ------------------------------------------- the normalizer run on its own
\* Every string of at most MaxLen characters.
NormInputs == UNION {[1..k -> Chars] : k \in 0..MaxLen}

EngineIdle ==
    /\ EngineInit
    /\ header_mode = "HasHeaders"

NormInit ==
    /\ EngineIdle
    /\ ProcIdle
    /\ MenuIdle
    /\ norm_in \in NormInputs
    /\ norm_once = <<>>
    /\ norm_twice = <<>>
    /\ norm_calls = 0

\* normalize(s)
NormalizeOnce ==
    /\ norm_calls = 0
    /\ norm_once' = clean_and_normalize_field(norm_in)
    /\ norm_calls' = 1
    /\ UNCHANGED <<norm_in, norm_twice>>
    /\ UNCHANGED engineVars
    /\ UNCHANGED procVars
    /\ UNCHANGED menuVars

\* normalize(normalize(s))
NormalizeTwice ==
    /\ norm_calls = 1
    /\ norm_twice' = clean_and_normalize_field(norm_once)
    /\ norm_calls' = 2
    /\ UNCHANGED <<norm_in, norm_once>>
    /\ UNCHANGED engineVars
    /\ UNCHANGED procVars
    /\ UNCHANGED menuVars

NormNext == NormalizeOnce \/ NormalizeTwice

NormSpec == NormInit /\ [][NormNext]_vars

\* ------------------------------------------------- the interactive program
\* Rows a processing run started from the menu may read.
MaxRunRows == 2

\* What a run started from the menu may find in the input file and at the
\* column-count prompt.
RunHeaders == {<<>>, <<WordB>>}

RunPrompts == {<<"x">>, <<"1">>}

RunRows == {<<WordA>>, <<WordA, WordA>>}

\* Lines read_line may return to a menu: the line typed and its newline.
MenuLines ==
    {<<DigitChars[n + 1], Newline>> : n \in 0..7}
        \cup {<<Newline>>, <<"a", Newline>>, <<Space, "2", Newline>>,
              <<"1", "0", Newline>>, <<"+", "1", Newline>>}

\* Lines typed at a file-path prompt.
PathLines == {<<Newline>>, <<Space, "n", Newline>>}

\* Lines typed at a (y/n) prompt.
ConfirmLines ==
    {<<"y", Newline>>, <<"Y", "E", "S", Newline>>, <<"n", Newline>>,
     <<Newline>>, <<"y", "e", Newline>>}

\* str::trim
RECURSIVE trim_start(_)
trim_start(s) ==
    IF s # <<>> /\ IsWhitespace(Head(s)) THEN trim_start(Tail(s)) ELSE s

RECURSIVE trim_end(_)
trim_end(s) ==
    IF s # <<>> /\ IsWhitespace(Last(s)) THEN trim_end(Front(s)) ELSE s

trim(s) == trim_end(trim_start(s))

\* u8::to_ascii_lowercase on the letters the confirmation lines hold.
to_ascii_lowercase(c) ==
    CASE c = "Y" -> "y"
      [] c = "E" -> "e"
      [] c = "S" -> "s"
      [] c = "N" -> "n"
      [] OTHER -> c

eq_ignore_ascii_case(a, b) ==
    /\ Len(a) = Len(b)
    /\ \A i \in 1..Len(a) : to_ascii_lowercase(a[i]) = to_ascii_lowercase(b[i])

\* str::parse::<u32>: as parse::<usize>; no line drawn here has the ten
\* digits an overflow needs.
ParseU32(s) == ParseUsize(s)

\* The range check with its lower bound forgotten.
InRange_noMin(c, min, max) == c <= max

\* get_menu_choice: choice >= min && choice <= max
InRange(c, min, max) == c >= min /\ c <= max

\* One iteration of get_menu_choice's loop on the line read: the choice is
\* returned, or the line is rejected and the prompt repeated.
get_menu_choice(min, max, line) ==
    LET parsed == ParseU32(trim(line))
    IN  IF parsed.ok /\ InRange(parsed.val, min, max)
        THEN [returned |-> TRUE, val |-> parsed.val]
        ELSE [returned |-> FALSE, val |-> 0]

\* get_string_input
get_string_input(line) == trim(line)

\* get_confirmation
get_confirmation(line) ==
    \/ eq_ignore_ascii_case(trim(line), <<"y">>)
    \/ eq_ignore_ascii_case(trim(line), <<"y", "e", "s">>)

\* The locals of a call of process_csv and reconstruct_records, as created at
\* the call and as dropped at the return.
EngineFresh(mode) ==
    /\ pc' = "start"
    /\ header_mode' = mode
    /\ expected_columns' = 0
    /\ logical_rows' = <<>>
    /\ buffer' = <<>>
    /\ stats' = StatsDefault
    /\ record' = <<>>
    /\ consumed' = 0
    /\ group' = <<>>
    /\ direct_rows' = 0
    /\ fixed_parts' = 0
    /\ discarded_parts' = 0
    /\ full_input' = <<>>
    /\ all_full' = TRUE
    /\ result' = Pending
    /\ tokenizer_error' = FALSE
    /\ prompt_line' = <<>>

\* The states in which the program waits for a line with `?` on the read.
Reading ==
    {"main", "settings", "delimiter", "header_mode", "input_file",
     "output_file", "confirm_input", "confirm_output"}

\* The states in which the program has not ended.
Running == Reading \cup {"processing", "pause_main", "pause_settings"}

MenuInit ==
    /\ EngineIdle
    /\ ProcIdle
    /\ NormIdle
    /\ menu_pc = "main"
    /\ config = ConfigDefault
    /\ choice = 0
    /\ menu_line = <<>>
    /\ pending_path = <<>>

\* main: one line read by get_menu_choice(1, 3) and, when a choice is
\* returned, the match on it.  Arm 1 calls process_csv.
MainMenu(line) ==
    /\ menu_pc = "main"
    /\ menu_line' = line
    /\ LET got == get_menu_choice(1, 3, line)
       IN  IF ~got.returned
           THEN /\ UNCHANGED <<menu_pc, choice>>
                /\ UNCHANGED engineVars
                /\ UNCHANGED procVars
           ELSE /\ choice' = got.val
                /\ CASE got.val = 1 ->
                          /\ menu_pc' = "processing"
                          /\ proc_pc' = "called"
                          /\ out_file' = Untouched
                          /\ EngineFresh(config.header_mode)
                     [] got.val = 2 ->
                          /\ menu_pc' = "settings"
                          /\ UNCHANGED engineVars
                          /\ UNCHANGED procVars
                     [] got.val = 3 ->
                          /\ menu_pc' = "exited"
                          /\ UNCHANGED engineVars
                          /\ UNCHANGED procVars
                     [] OTHER ->
                          /\ menu_pc' = "unreachable"
                          /\ UNCHANGED engineVars
                          /\ UNCHANGED procVars
    /\ UNCHANGED <<config, pending_path>>
    /\ UNCHANGED normVars

\* The steps of reconstruct_records in a run started from the menu.
MenuReconstructing ==
    /\ proc_pc = "reconstruct"
    /\ \/ SetupError
       \/ \E h \in RunHeaders : DetectFromHeaders(h)
       \/ \E input \in RunPrompts : DetectFromPrompt(input)
       \/ consumed < MaxRunRows /\ \E r \in RunRows : ProcessRow(r)
       \/ consumed < MaxRunRows /\ ReadError
       \/ EndOfStream

\* process_csv running under main.
Processing ==
    /\ menu_pc = "processing"
    /\ \/ InputMissing
       \/ BeginReconstruct
       \/ MenuReconstructing
       \/ ReconstructFailed
       \/ WriteOpenFailed
       \/ \E k \in 0..(MaxRunRows + 1) : WriteFailed(k)
       \/ WriteOutput

\* A failed run started again without a new selection.
ProcessReturns_retry ==
    /\ menu_pc = "processing"
    /\ proc_pc \in {"ok", "failed"}
    /\ IF proc_pc = "failed"
       THEN /\ menu_pc' = "processing"
            /\ proc_pc' = "called"
       ELSE /\ menu_pc' = "pause_main"
            /\ proc_pc' = proc_pc
    /\ EngineFresh(config.header_mode)
    /\ UNCHANGED out_file
    /\ UNCHANGED <<config, choice, menu_line, pending_path>>
    /\ UNCHANGED normVars

\* process_csv has returned: its locals are dropped, main shows the error
\* message if it returned Err and calls ui::pause().
ProcessReturns ==
    /\ menu_pc = "processing"
    /\ proc_pc \in {"ok", "failed"}
    /\ menu_pc' = "pause_main"
    /\ EngineFresh(config.header_mode)
    /\ UNCHANGED procVars
    /\ UNCHANGED <<config, choice, menu_line, pending_path>>
    /\ UNCHANGED normVars

\* ui::pause() returns in main: the loop shows the main menu again.
PauseMain ==
    /\ menu_pc = "pause_main"
    /\ menu_pc' = "main"
    /\ UNCHANGED <<config, choice, menu_line, pending_path>>
    /\ UNCHANGED engineVars
    /\ UNCHANGED procVars
    /\ UNCHANGED normVars

\* configure_settings: one line read by get_menu_choice(1, 6) and the match.
SettingsMenu(line) ==
    /\ menu_pc = "settings"
    /\ menu_line' = line
    /\ LET got == get_menu_choice(1, 6, line)
       IN  IF ~got.returned
           THEN UNCHANGED <<menu_pc, choice, config>>
           ELSE /\ choice' = got.val
                /\ config' = IF got.val = 5 THEN ConfigDefault ELSE config
                /\ menu_pc' =
                       CASE got.val = 1 -> "delimiter"
                         [] got.val = 2 -> "header_mode"
                         [] got.val = 3 -> "input_file"
                         [] got.val = 4 -> "output_file"
                         [] got.val = 5 -> "pause_settings"
                         [] got.val = 6 -> "main"
                         [] OTHER -> "unreachable"
    /\ UNCHANGED pending_path
    /\ UNCHANGED engineVars
    /\ UNCHANGED procVars
    /\ UNCHANGED normVars

\* change_delimiter: one line read by get_menu_choice(1, 4) and the match.
DelimiterMenu(line) ==
    /\ menu_pc = "delimiter"
    /\ menu_line' = line
    /\ LET got == get_menu_choice(1, 4, line)
       IN  IF ~got.returned
           THEN UNCHANGED <<menu_pc, choice, config>>
           ELSE /\ choice' = got.val
                /\ IF got.val \in 1..4
                   THEN /\ config' =
                               [config EXCEPT !.delimiter =
                                   CASE got.val = 1 -> "Comma"
                                     [] got.val = 2 -> "Semicolon"
                                     [] got.val = 3 -> "Tab"
                                     [] got.val = 4 -> "Pipe"]
                        /\ menu_pc' = "pause_settings"
                   ELSE /\ config' = config
                        /\ menu_pc' = "unreachable"
    /\ UNCHANGED pending_path
    /\ UNCHANGED engineVars
    /\ UNCHANGED procVars
    /\ UNCHANGED normVars

\* change_header_mode: one line read by get_menu_choice(1, 2) and the match.
HeaderModeMenu(line) ==
    /\ menu_pc = "header_mode"
    /\ menu_line' = line
    /\ LET got == get_menu_choice(1, 2, line)
       IN  IF ~got.returned
           THEN UNCHANGED <<menu_pc, choice, config>>
           ELSE /\ choice' = got.val
                /\ IF got.val \in 1..2
                   THEN /\ config' =
                               [config EXCEPT !.header_mode =
                                   IF got.val = 1 THEN "HasHeaders"
                                   ELSE "NoHeaders"]
                        /\ menu_pc' = "pause_settings"
                   ELSE /\ config' = config
                        /\ menu_pc' = "unreachable"
    /\ UNCHANGED pending_path
    /\ UNCHANGED engineVars
    /\ UNCHANGED procVars
    /\ UNCHANGED normVars

\* change_input_file up to its return or its confirmation prompt; `exists`
\* is what Path::exists answers for the path typed.
ChangeInputFile(line, exists) ==
    /\ menu_pc = "input_file"
    /\ menu_line' = line
    /\ LET input == get_string_input(line)
       IN  IF input = <<>>
           THEN /\ menu_pc' = "pause_settings"
                /\ UNCHANGED <<config, pending_path>>
           ELSE IF exists
           THEN /\ config' = [config EXCEPT !.input_file = input]
                /\ menu_pc' = "pause_settings"
                /\ UNCHANGED pending_path
           ELSE /\ pending_path' = input
                /\ menu_pc' = "confirm_input"
                /\ UNCHANGED config
    /\ UNCHANGED choice
    /\ UNCHANGED engineVars
    /\ UNCHANGED procVars
    /\ UNCHANGED normVars

\* change_input_file after "Set path anyway?".
ConfirmInput(line) ==
    /\ menu_pc = "confirm_input"
    /\ menu_line' = line
    /\ config' = IF get_confirmation(line)
                 THEN [config EXCEPT !.input_file = pending_path]
                 ELSE config
    /\ pending_path' = <<>>
    /\ menu_pc' = "pause_settings"
    /\ UNCHANGED choice
    /\ UNCHANGED engineVars
    /\ UNCHANGED procVars
    /\ UNCHANGED normVars

\* change_output_file up to its return or its confirmation prompt.
ChangeOutputFile(line, exists) ==
    /\ menu_pc = "output_file"
    /\ menu_line' = line
    /\ LET input == get_string_input(line)
       IN  IF input = <<>>
           THEN /\ menu_pc' = "pause_settings"
                /\ UNCHANGED <<config, pending_path>>
           ELSE IF exists
           THEN /\ pending_path' = input
                /\ menu_pc' = "confirm_output"
                /\ UNCHANGED config
           ELSE /\ config' = [config EXCEPT !.output_file = input]
                /\ menu_pc' = "pause_settings"
                /\ UNCHANGED pending_path
    /\ UNCHANGED choice
    /\ UNCHANGED engineVars
    /\ UNCHANGED procVars
    /\ UNCHANGED normVars

\* change_output_file after "Overwrite?".
ConfirmOutput(line) ==
    /\ menu_pc = "confirm_output"
    /\ menu_line' = line
    /\ config' = IF get_confirmation(line)
                 THEN [config EXCEPT !.output_file = pending_path]
                 ELSE config
    /\ pending_path' = <<>>
    /\ menu_pc' = "pause_settings"
    /\ UNCHANGED choice
    /\ UNCHANGED engineVars
    /\ UNCHANGED procVars
    /\ UNCHANGED normVars

\* ui::pause() returns in configure_settings: the settings menu is shown
\* again.
PauseSettings ==
    /\ menu_pc = "pause_settings"
    /\ menu_pc' = "settings"
    /\ UNCHANGED <<config, choice, menu_line, pending_path>>
    /\ UNCHANGED engineVars
    /\ UNCHANGED procVars
    /\ UNCHANGED normVars

\* A flush or read_line of a prompt fails: `?` carries the io::Error out of
\* main.
ReadFails ==
    /\ menu_pc \in Reading
    /\ menu_pc' = "io_error"
    /\ UNCHANGED <<config, choice, menu_line, pending_path>>
    /\ UNCHANGED engineVars
    /\ UNCHANGED procVars
    /\ UNCHANGED normVars

\* A write to the terminal fails where the result is unwrapped (ui::pause,
\* ui::clear_screen) or inside println!: the program panics.
TerminalPanics ==
    /\ menu_pc \in Running
    /\ menu_pc' = "io_panic"
    /\ UNCHANGED <<config, choice, menu_line, pending_path>>
    /\ UNCHANGED engineVars
    /\ UNCHANGED procVars
    /\ UNCHANGED normVars

MenuNext ==
    \/ \E line \in MenuLines : MainMenu(line)
    \/ Processing
    \/ ProcessReturns
    \/ PauseMain
    \/ \E line \in MenuLines : SettingsMenu(line)
    \/ \E line \in MenuLines : DelimiterMenu(line)
    \/ \E line \in MenuLines : HeaderModeMenu(line)
    \/ \E line \in PathLines : \E exists \in BOOLEAN : ChangeInputFile(line, exists)
    \/ \E line \in ConfirmLines : ConfirmInput(line)
    \/ \E line \in PathLines : \E exists \in BOOLEAN : ChangeOutputFile(line, exists)
    \/ \E line \in ConfirmLines : ConfirmOutput(line)
    \/ PauseSettings
    \/ ReadFails
    \/ TerminalPanics

MenuSpec == MenuInit /\ [][MenuNext]_vars

\* ------------------------------------------------------------ properties
\* The data rows of the output: the output without the header row.
DataRows == IF header_mode = "HasHeaders" THEN Tail(logical_rows) ELSE logical_rows

\* A step that processed one Ok record (record' is that record).
RowStep == pc = "loop" /\ pc' = "loop" /\ consumed' = consumed + 1

\* The step that ends the stream.
EndStep == pc = "loop" /\ pc' = "done"

NonEmptyField(f) == f # <<>>

RECURSIVE CountChar(_, _)
CountChar(s, c) ==
    IF s = <<>> THEN 0
    ELSE (IF Head(s) = c THEN 1 ELSE 0) + CountChar(Tail(s), c)

\* C1: every row of the output list (the header, every directly emitted row
\* and every stitched row) has exactly expected_columns fields, during the
\* pass and in the list returned.
C1_EmittedRowsHaveExpectedWidth ==
    pc \in {"loop", "done"} =>
        \A i \in 1..Len(logical_rows) : Len(logical_rows[i]) = expected_columns

\* C1 witness: a returned list that holds a header, a directly emitted row and
\* a stitched row.
C1_Witness ==
    /\ pc = "done"
    /\ header_mode = "HasHeaders"
    /\ direct_rows >= 1
    /\ stats.fixed_rows >= 1
    /\ Len(logical_rows) = 3

\* C2 as claimed: at rest (between rows and at end of stream) the Buffer
\* length is in [0, expected_columns), so it is strictly below
\* expected_columns.
C2_BufferBelowExpected ==
    pc \in {"loop", "done"} => Len(buffer) < expected_columns

\* C3: at the end of an error-free run every consumed physical row is
\* accounted exactly once: total_rows = directly emitted rows + rows that went
\* into fixed rows + rows discarded (alone, in a discarded group, or in the
\* group left at end of stream).
C3_RowsAccountedOnce ==
    pc = "done" =>
        stats.total_rows = direct_rows + fixed_parts + discarded_parts

\* C3 witness: a finished run with a direct row, a fixed row and a group left
\* in the Buffer at end of stream.
C3_Witness ==
    /\ pc = "done"
    /\ direct_rows >= 1
    /\ fixed_parts >= 2
    /\ buffer # <<>>
    /\ discarded_parts >= 1

\* C4: when every physical data row is expected_columns wide, the returned
\* data rows are the input rows, unchanged and in order, nothing is fixed or
\* removed, and total_rows is the number of data rows.
C4_CleanInputPassesThrough ==
    (pc = "done" /\ all_full) =>
        /\ DataRows = full_input
        /\ stats.fixed_rows = 0
        /\ stats.removed_rows = 0
        /\ stats.total_rows = Len(full_input)
        /\ Len(full_input) = consumed

\* C4 witness: a finished run over three full-width rows that are not all the
\* same.
C4_Witness ==
    /\ pc = "done"
    /\ all_full
    /\ consumed = 3
    /\ full_input[1] # full_input[2]
    /\ full_input[2] # full_input[3]

\* C5: after every step total_rows is the number of physical data rows pulled
\* from the stream so far, whatever became of them; the header row is not
\* counted.
C5_TotalRowsCountsConsumed ==
    stats.total_rows = consumed

\* C5 witness: in has-headers mode three rows were consumed: one removed, one
\* emitted directly, one waiting in the Buffer.
C5_Witness ==
    /\ header_mode = "HasHeaders"
    /\ pc = "loop"
    /\ consumed = 3
    /\ stats.removed_rows = 1
    /\ direct_rows = 1
    /\ buffer # <<>>

\* C6: a step on a physical row with more than expected_columns fields adds
\* exactly one to removed_rows and leaves the Buffer, the emitted rows and
\* fixed_rows unchanged, in either state.
C6_OverLengthRowOnlyCounted ==
    [][(RowStep /\ Len(record') > expected_columns) =>
          /\ stats'.removed_rows = stats.removed_rows + 1
          /\ buffer' = buffer
          /\ logical_rows' = logical_rows
          /\ stats'.fixed_rows = stats.fixed_rows]_vars

\* C6 witness: an over-length row has just been discarded while a Buffer of two
\* fields was being accumulated.
C6_Witness ==
    /\ pc = "loop"
    /\ Len(record) > expected_columns
    /\ Len(buffer) = 2
    /\ consumed >= 2
    /\ stats.removed_rows = 1

\* C7: from Idle, two consecutive rows of widths a and b with
\* 1 <= a < expected_columns and a + b - 1 = expected_columns give exactly one
\* logical row: the first row's fields, its last field joined to the second
\* row's first field, then the second row's remaining fields; fixed_rows grows
\* by one and removed_rows does not change.
C7_TwoRowSplitIsFixed ==
    [][(/\ RowStep
        /\ Len(group) = 1
        /\ record = group[1]
        /\ buffer = record
        /\ 1 <= Len(buffer)
        /\ Len(buffer) < expected_columns
        /\ Len(buffer) + Len(record') - 1 = expected_columns) =>
          /\ logical_rows' =
                Append(logical_rows,
                       Front(buffer)
                       \o <<IF Last(buffer) = <<>>
                            THEN record'[1]
                            ELSE Last(buffer) \o <<Newline>> \o record'[1]>>
                       \o Tail(record'))
          /\ stats'.fixed_rows = stats.fixed_rows + 1
          /\ stats'.removed_rows = stats.removed_rows
          /\ buffer' = <<>>]_vars

\* C7 witness: the first two rows of a three-column stream, each two fields
\* wide, have just been stitched into one fixed row whose middle field holds a
\* newline.
C7_Witness ==
    /\ pc = "loop"
    /\ expected_columns = 3
    /\ consumed = 2
    /\ Len(record) = 2
    /\ stats.fixed_rows = 1
    /\ stats.removed_rows = 0
    /\ buffer = <<>>
    /\ CountChar(Last(logical_rows)[2], Newline) = 1

\* The fragments of the value a group of rows carries: the last field of the
\* group's first row, the single field of each later row, and the first field
\* of the completing row r.
Fragments(g, r) ==
    <<Last(g[1])>> \o [i \in 1..(Len(g) - 1) |-> g[i + 1][1]] \o <<r[1]>>

\* The step that completes a value fragmented over k >= 3 rows: the Buffer
\* holds a first row and at least one single-field row, and the record fills
\* the width.
FragmentedValueCompletes ==
    /\ RowStep
    /\ Len(group) >= 2
    /\ \A i \in 2..Len(group) : Len(group[i]) = 1
    /\ Len(record') >= 1
    /\ Len(buffer) + Len(record') - 1 = expected_columns

\* A single-field row met while Accumulating leaves the engine Accumulating.
SingleFieldRowKeepsAccumulating ==
    (RowStep /\ buffer # <<>> /\ Len(record') = 1 /\ expected_columns > Len(buffer)) =>
        /\ buffer' # <<>>
        /\ Len(buffer') = Len(buffer)
        /\ logical_rows' = logical_rows

\* The words of the fragments, in order.
RECURSIVE WordsOf(_)
WordsOf(frags) ==
    IF frags = <<>> THEN <<>>
    ELSE split_whitespace(Head(frags)) \o WordsOf(Tail(frags))

\* The fragments stitched left to right: a newline goes before each later
\* fragment, empty or not, whenever the field built so far is non-empty.
RECURSIVE FoldFragments(_, _)
FoldFragments(acc, frags) ==
    IF frags = <<>> THEN acc
    ELSE FoldFragments(
             IF acc # <<>> THEN acc \o <<Newline>> \o Head(frags)
             ELSE Head(frags),
             Tail(frags))

\* C8 as claimed: the stitched field of a value fragmented over k >= 3 rows is
\* its non-empty fragments joined by newlines, and its normalized form is the
\* fragments' words joined by single spaces.
C8_Original_NonEmptyFragmentsJoined ==
    [][/\ SingleFieldRowKeepsAccumulating
       /\ FragmentedValueCompletes =>
            /\ Len(logical_rows') = Len(logical_rows) + 1
            /\ Last(logical_rows')[Len(buffer)] =
                   join(SelectSeq(Fragments(group, record'), NonEmptyField),
                        <<Newline>>)
            /\ clean_and_normalize_field(Last(logical_rows')[Len(buffer)]) =
                   join(WordsOf(Fragments(group, record')), <<Space>>)]_vars

\* C8 amended: the value is merged into one field of one logical row, the
\* engine stays Accumulating on every single-field row, the stitched field is
\* the fragments folded by the stitch rule (a newline before every fragment,
\* empty or not, that follows a non-empty accumulated field), and its
\* normalized form is the fragments' words joined by single spaces, with no
\* newline.
C8_FragmentsFoldedWithNewlines ==
    [][/\ SingleFieldRowKeepsAccumulating
       /\ FragmentedValueCompletes =>
            /\ Len(logical_rows') = Len(logical_rows) + 1
            /\ stats'.fixed_rows = stats.fixed_rows + 1
            /\ buffer' = <<>>
            /\ Last(logical_rows')[Len(buffer)] =
                   FoldFragments(<<>>, Fragments(group, record'))
            /\ clean_and_normalize_field(Last(logical_rows')[Len(buffer)]) =
                   join(WordsOf(Fragments(group, record')), <<Space>>)
            /\ CountChar(clean_and_normalize_field(
                             Last(logical_rows')[Len(buffer)]), Newline) = 0]_vars

\* C8 witness: three rows (two fields, one field, two fields) of a
\* three-column stream have just been merged into one fixed row whose middle
\* field holds both newlines.
C8_Witness ==
    /\ pc = "loop"
    /\ expected_columns = 3
    /\ consumed = 3
    /\ fixed_parts = 3
    /\ stats.fixed_rows = 1
    /\ buffer = <<>>
    /\ CountChar(Last(logical_rows)[2], Newline) = 2

\* C9: at end of stream a non-empty Buffer adds exactly one to removed_rows,
\* however many rows it accumulated, and nothing is emitted for it; an empty
\* Buffer changes no counter.
C9_EndOfStreamDiscardsBuffer ==
    [][EndStep =>
          /\ logical_rows' = logical_rows
          /\ stats'.total_rows = stats.total_rows
          /\ stats'.fixed_rows = stats.fixed_rows
          /\ stats'.removed_rows =
                 stats.removed_rows + (IF buffer # <<>> THEN 1 ELSE 0)]_vars

\* C9 witness: the stream ended with a Buffer built from three physical rows,
\* and that is the only removal of the run.
C9_Witness ==
    /\ pc = "done"
    /\ Len(group) = 3
    /\ buffer # <<>>
    /\ stats.removed_rows = 1
    /\ stats.fixed_rows = 0

\* C10: the field normalizer is idempotent:
\* normalize(normalize(s)) = normalize(s).
C10_NormalizeIdempotent ==
    norm_calls = 2 => norm_twice = norm_once

\* C10 witness: a string of full length that starts with whitespace and holds
\* a word was normalized twice, and normalization changed it.
C10_Witness ==
    /\ norm_calls = 2
    /\ Len(norm_in) = MaxLen
    /\ norm_once # norm_in
    /\ norm_once # <<>>
    /\ IsWhitespace(norm_in[1])

\* The positions of s where a maximal run of non-whitespace characters starts.
FragmentStarts(s) ==
    {i \in 1..Len(s) :
        /\ s[i] \notin Whitespace
        /\ (i = 1 \/ s[i - 1] \in Whitespace)}

\* The maximal run of non-whitespace characters of s that starts at i.
FragmentAt(s, i) ==
    SubSeq(s, i,
           CHOOSE j \in i..Len(s) :
               /\ \A k \in i..j : s[k] \notin Whitespace
               /\ (j = Len(s) \/ s[j + 1] \in Whitespace))

\* The fragments that start in `starts`, in the order of their positions, with
\* one space between neighbours.
RECURSIVE FragmentsSpaced(_, _)
FragmentsSpaced(s, starts) ==
    IF starts = {} THEN <<>>
    ELSE LET i == CHOOSE x \in starts : \A y \in starts : x <= y
         IN  IF starts = {i} THEN FragmentAt(s, i)
             ELSE FragmentAt(s, i) \o <<Space>> \o FragmentsSpaced(s, starts \ {i})

C12_OutputOnlyAfterReconstruction ==
    [][/\ out_file'.touched => (pc' = "done" /\ result'.tag = "Ok")
       /\ out_file' # out_file => (pc = "done" /\ result.tag = "Ok")]_vars

\* C12 witness: a run that returned a header and two data rows has written all
\* three to the output file.
C12_Witness ==
    /\ proc_pc = "ok"
    /\ out_file.touched
    /\ Len(out_file.rows) = 3
    /\ stats.fixed_rows = 1

\* C13 as claimed: once the tokenizer has reported an error the run has
\* aborted with nothing handed to the caller: no logical rows and no Stats
\* (the caller's Stats is as it was before the call).
C13_Original_NothingReturned ==
    tokenizer_error =>
        /\ pc = "failed"
        /\ result = Err
        /\ stats = StatsDefault

\* C13 amended: a tokenizer error aborts the run at that row:
\* reconstruct_records returns Err, which carries no logical row, and no later
\* row is consumed; the caller's Stats is not rolled back: it keeps the counts
\* made so far, the failing row included in total_rows.
C13_TokenizerErrorAborts ==
    [][/\ tokenizer_error' =>
              /\ pc' = "failed"
              /\ result' = Err
              /\ result'.rows = <<>>
       /\ (tokenizer_error' /\ ~tokenizer_error) =>
              /\ stats'.total_rows = stats.total_rows + 1
              /\ stats'.fixed_rows = stats.fixed_rows
              /\ stats'.removed_rows = stats.removed_rows
       /\ tokenizer_error =>
              /\ consumed' = consumed
              /\ stats' = stats
              /\ pc' = "failed"
              /\ out_file' = out_file]_vars

\* C13 witness: the third data row was a tokenizer error, after a fixed row
\* had been assembled, and process_csv has returned the error.
C13_Witness ==
    /\ tokenizer_error
    /\ proc_pc = "failed"
    /\ consumed = 3
    /\ stats.total_rows = 3
    /\ stats.fixed_rows = 1
    /\ Len(logical_rows) >= 2
    /\ result.rows = <<>>

\* A prompt line that is a positive integer: digits only, not all zeros.
IsPositiveCount(line) ==
    /\ line # <<>>
    /\ \A i \in 1..Len(line) :
           line[i] \in {"0", "1", "2", "3", "4", "5", "6", "7", "8", "9"}
    /\ \E i \in 1..Len(line) : line[i] # "0"

\* C14 as claimed: in no-headers mode a column count that is missing,
\* non-numeric or not a positive integer (zero included) fails at set-up,
\* before any row is processed: the counters are untouched and no row is
\* emitted.
C14_InvalidCountRejectedAtSetup ==
    (header_mode = "NoHeaders" /\ pc # "start" /\ ~IsPositiveCount(prompt_line)) =>
        /\ pc = "failed"
        /\ result = Err
        /\ stats = StatsDefault
        /\ logical_rows = <<>>
        /\ consumed = 0

\* C15 as claimed: whenever column-count detection succeeds, in either mode
\* and also for an empty input, expected_columns is at least 1, and it keeps
\* its value for the whole reconstruction pass.
C15_ExpectedColumnsPositiveAndFixed ==
    [][/\ pc' \in {"loop", "done"} => expected_columns' >= 1
       /\ pc = "loop" => expected_columns' = expected_columns]_vars

\* C16: for the Stats of any run started from zeroed Stats,
\* removed_rows <= total_rows, so total_rows - removed_rows does not
\* underflow; the success rate is 0 when total_rows = 0, otherwise
\* (total_rows - removed_rows) / total_rows * 100, and lies within 0..100.
C16_SuccessRateIsPercentage ==
    LET rate == calculate_success_rate(stats)
    IN  /\ stats.removed_rows <= stats.total_rows
        /\ ~rate.underflow
        /\ rate.den >= 1
        /\ 0 <= rate.num
        /\ rate.num <= 100 * rate.den
        /\ stats.total_rows = 0 => rate.num = 0
        /\ stats.total_rows > 0 =>
               rate.num * stats.total_rows =
                   (stats.total_rows - stats.removed_rows) * 100 * rate.den

\* C16 witness: a finished run that removed every row it read, the last one
\* as the group left in the Buffer at end of stream: the rate is 0 and the
\* subtraction is 0.
C16_Witness ==
    /\ pc = "done"
    /\ stats.total_rows = 3
    /\ stats.removed_rows = 3
    /\ buffer # <<>>
    /\ calculate_success_rate(stats).num = 0

\* C17: when the engine is Idle and a row with exactly expected_columns
\* fields arrives, the row is appended to the output unchanged, the Buffer
\* stays empty, and fixed_rows and removed_rows do not change.
C17_IdleFullRowEmitted ==
    [][(RowStep /\ buffer = <<>> /\ Len(record') = expected_columns) =>
          /\ logical_rows' = Append(logical_rows, record')
          /\ buffer' = <<>>
          /\ stats'.fixed_rows = stats.fixed_rows
          /\ stats'.removed_rows = stats.removed_rows]_vars

\* C17 witness: the second of two full-width rows has just been emitted from
\* Idle.
C17_Witness ==
    /\ pc = "loop"
    /\ consumed = 2
    /\ direct_rows = 2
    /\ buffer = <<>>
    /\ Len(record) = expected_columns
    /\ Last(logical_rows) = record
    /\ logical_rows[Len(logical_rows) - 1] # record

\* C18: when the engine is Idle and a row with fewer than expected_columns
\* fields arrives, the Buffer becomes exactly the row's fields (the engine is
\* Accumulating), nothing is emitted, and fixed_rows and removed_rows do not
\* change.
C18_IdleShortRowBuffered ==
    [][(RowStep /\ buffer = <<>> /\ Len(record') < expected_columns) =>
          /\ buffer' = record'
          /\ buffer' # <<>>
          /\ logical_rows' = logical_rows
          /\ stats'.fixed_rows = stats.fixed_rows
          /\ stats'.removed_rows = stats.removed_rows]_vars

\* C18 witness: a two-field row of a three-column stream has just been put in
\* the Buffer after a full-width row was emitted.
C18_Witness ==
    /\ pc = "loop"
    /\ expected_columns = 3
    /\ consumed = 2
    /\ direct_rows = 1
    /\ Len(record) = 2
    /\ buffer = record
    /\ stats.fixed_rows = 0
    /\ stats.removed_rows = 0

\* The Buffer buf after the row rec has been stitched onto it, field by
\* field: fields before the last unchanged, the last field joined to rec's
\* first field (with a newline when it was non-empty), rec's other fields
\* appended.
StitchedAsClaimed(buf, rec) ==
    [i \in 1..(Len(buf) + Len(rec) - 1) |->
        IF i < Len(buf) THEN buf[i]
        ELSE IF i = Len(buf)
             THEN IF buf[i] # <<>>
                  THEN buf[i] \o <<Newline>> \o rec[1]
                  ELSE rec[1]
             ELSE rec[i - Len(buf) + 1]]

\* C19: when the engine is Accumulating with a Buffer of length L and a row
\* of n fields (1 <= n <= expected_columns) arrives, the stitch changes only
\* the Buffer's last field and the tail: the stitched Buffer has L + n - 1
\* fields and is what stays in the Buffer (when shorter than
\* expected_columns) or what is emitted (when exactly expected_columns).
C19_StitchJoinsLastAndAppends ==
    [][(/\ RowStep
        /\ buffer # <<>>
        /\ 1 <= Len(record')
        /\ Len(record') <= expected_columns) =>
          /\ Len(buffer) + Len(record') - 1 < expected_columns =>
                 buffer' = StitchedAsClaimed(buffer, record')
          /\ Len(buffer) + Len(record') - 1 = expected_columns =>
                 logical_rows' =
                     Append(logical_rows, StitchedAsClaimed(buffer, record'))]_vars

\* C19 witness: a two-field row has been stitched onto a one-field Buffer
\* whose field was not empty, in a four-column stream: the Buffer holds two
\* fields, the first with the newline.
C19_Witness ==
    /\ pc = "loop"
    /\ Len(group) = 2
    /\ Len(record) = 2
    /\ Len(buffer) = 2
    /\ CountChar(buffer[1], Newline) = 1
    /\ buffer[2] = record[2]

\* C20: after a stitch exactly one of three outcomes occurs.  A Buffer of
\* exactly expected_columns fields is emitted as one logical row, fixed_rows
\* grows by one, the Buffer is cleared.  A longer Buffer adds one to
\* removed_rows, nothing is emitted, the Buffer is cleared.  Otherwise the
\* engine stays Accumulating and only total_rows changes.
C20_StitchOutcomes ==
    [][(/\ RowStep
        /\ buffer # <<>>
        /\ Len(record') <= expected_columns) =>
          LET len == Len(buffer) + Len(record') - 1
          IN  /\ stats'.total_rows = stats.total_rows + 1
              /\ len = expected_columns =>
                     /\ Len(logical_rows') = Len(logical_rows) + 1
                     /\ Front(logical_rows') = logical_rows
                     /\ Len(Last(logical_rows')) = expected_columns
                     /\ stats'.fixed_rows = stats.fixed_rows + 1
                     /\ stats'.removed_rows = stats.removed_rows
                     /\ buffer' = <<>>
              /\ len > expected_columns =>
                     /\ logical_rows' = logical_rows
                     /\ stats'.fixed_rows = stats.fixed_rows
                     /\ stats'.removed_rows = stats.removed_rows + 1
                     /\ buffer' = <<>>
              /\ len < expected_columns =>
                     /\ logical_rows' = logical_rows
                     /\ stats'.fixed_rows = stats.fixed_rows
                     /\ stats'.removed_rows = stats.removed_rows
                     /\ buffer' # <<>>
                     /\ Len(buffer') = len]_vars

\* C20 witness: the second row made the stitched Buffer longer than
\* expected_columns, so both rows were discarded with one removal.
C20_Witness ==
    /\ pc = "loop"
    /\ consumed = 2
    /\ Len(record) <= expected_columns
    /\ discarded_parts = 2
    /\ stats.removed_rows = 1
    /\ stats.fixed_rows = 0
    /\ buffer = <<>>

\* C21: the output list only grows by appending.  Set-up leaves it holding
\* the header row alone (has-headers mode) or nothing (no-headers mode); after
\* that every step either leaves the list as it is or appends one row at its
\* end, and it appends only while processing the physical row that completes
\* the logical row: the row itself when the engine was Idle, the stitched
\* Buffer when it was Accumulating.  Rows already in the list keep their
\* place and content.
C21_OutputAppendOnly ==
    [][/\ (pc = "start" /\ pc' = "loop") =>
              IF header_mode = "HasHeaders"
              THEN /\ Len(logical_rows') = 1
                   /\ Len(logical_rows'[1]) = expected_columns'
              ELSE logical_rows' = <<>>
       /\ pc # "start" =>
              \/ logical_rows' = logical_rows
              \/ /\ RowStep
                 /\ logical_rows' =
                        Append(logical_rows,
                               IF buffer = <<>> THEN record'
                               ELSE Stitch(buffer, record'))]_vars

\* C21 witness: in has-headers mode the list holds the header, then a
\* directly emitted row, then a fixed row completed by a later physical row.
C21_Witness ==
    /\ pc = "loop"
    /\ header_mode = "HasHeaders"
    /\ Len(logical_rows) = 3
    /\ consumed = 3
    /\ direct_rows = 1
    /\ stats.fixed_rows = 1
    /\ \E i \in 1..Len(logical_rows[3]) :
           CountChar(logical_rows[3][i], Newline) = 1
    /\ \A i \in 1..Len(logical_rows[2]) :
           CountChar(logical_rows[2][i], Newline) = 0

\* C22: normalization is applied only at write time.  Inside
\* reconstruct_records a directly emitted row is the physical row character
\* for character and an emitted stitched row is the Buffer with the row
\* stitched on, newline and surrounding whitespace kept; the rows returned are
\* the rows built.  write_output_csv writes one record per row, in order,
\* with the same number of fields, each field the normalized form of the
\* field it was given, the header row included.
C22_NormalizedOnlyWhenWritten ==
    [][/\ (RowStep /\ logical_rows' # logical_rows) =>
              Last(logical_rows') =
                  IF buffer = <<>> THEN record'
                  ELSE StitchedAsClaimed(buffer, record')
       /\ (pc = "loop" /\ pc' = "done") => result'.rows = logical_rows
       /\ (proc_pc = "reconstruct" /\ proc_pc' = "ok") =>
              /\ Len(out_file'.rows) = Len(result.rows)
              /\ \A i \in 1..Len(result.rows) :
                     /\ Len(out_file'.rows[i]) = Len(result.rows[i])
                     /\ \A j \in 1..Len(result.rows[i]) :
                            out_file'.rows[i][j] =
                                clean_and_normalize_field(result.rows[i][j])]_vars

\* C22 witness: a run with a header has been written; the rows returned hold
\* a stitched field with its newline and a header with its trailing space,
\* and the file holds both without them.
C22_Witness ==
    /\ proc_pc = "ok"
    /\ header_mode = "HasHeaders"
    /\ stats.fixed_rows >= 1
    /\ Len(result.rows) >= 2
    /\ result.rows[1] # out_file.rows[1]
    /\ \E i \in 2..Len(result.rows) : \E j \in 1..Len(result.rows[i]) :
           /\ CountChar(result.rows[i][j], Newline) = 1
           /\ CountChar(out_file.rows[i][j], Newline) = 0

\* A physical row of exactly expected_columns fields arrives while the engine
\* is Accumulating.
FullRowWhileAccumulating ==
    RowStep /\ buffer # <<>> /\ Len(record') = expected_columns

\* What C23 says of both cases: a one-field Buffer takes the row and is
\* emitted as a fixed row, a longer Buffer is discarded with the row.
MergedOrDiscarded ==
    /\ Len(buffer) = 1 =>
           /\ logical_rows' = Append(logical_rows, Stitch(buffer, record'))
           /\ stats'.fixed_rows = stats.fixed_rows + 1
           /\ stats'.removed_rows = stats.removed_rows
           /\ direct_rows' = direct_rows
           /\ buffer' = <<>>
    /\ Len(buffer) >= 2 =>
           /\ logical_rows' = logical_rows
           /\ stats'.fixed_rows = stats.fixed_rows
           /\ stats'.removed_rows = stats.removed_rows + 1
           /\ discarded_parts' = discarded_parts + Len(group) + 1
           /\ buffer' = <<>>

\* C23 as stated: a full-width row arriving while the engine is Accumulating
\* is merged into a one-field Buffer and emitted as a fixed row, or discarded
\* with a longer Buffer; in neither case does the output receive the row
\* unchanged (a full-width row is emitted unchanged only when Idle).
C23_Original_FullRowNeverEmittedUnchanged ==
    [][FullRowWhileAccumulating =>
          /\ MergedOrDiscarded
          /\ logical_rows' # logical_rows => Last(logical_rows') # record']_vars

\* C23 (amended): a full-width row arriving while the engine is Accumulating
\* is merged into a one-field Buffer and emitted as a fixed row, or discarded
\* with a longer Buffer; it is never counted as a directly emitted row.  The
\* emitted fixed row equals the physical row field for field exactly when the
\* one buffered field is empty.
C23_FullRowWhileAccumulating ==
    [][FullRowWhileAccumulating =>
          /\ MergedOrDiscarded
          /\ logical_rows' # logical_rows =>
                 (Last(logical_rows') = record' <=> buffer = <<EmptyField>>)]_vars

\* C23 witness: a one-field row holding the empty string was buffered, the
\* next row was full width, and the fixed row emitted is that row unchanged.
C23_Witness ==
    /\ pc = "loop"
    /\ consumed = 2
    /\ expected_columns >= 2
    /\ Len(record) = expected_columns
    /\ fixed_parts = 2
    /\ direct_rows = 0
    /\ stats.fixed_rows = 1
    /\ Last(logical_rows) = record

\* The number of data rows in the output list: the header row, when one was
\* pushed, is not a data row.
EmittedDataRows ==
    IF header_mode = "HasHeaders" /\ logical_rows # <<>>
    THEN Len(logical_rows) - 1
    ELSE Len(logical_rows)

\* C24: in every reachable state of a run started from zeroed Stats,
\* 2 * fixed_rows + removed_rows + (directly emitted rows) <= total_rows and
\* the emitted data rows number (directly emitted rows) + fixed_rows: every
\* fixed row consumed at least two physical rows, every removal at least one,
\* and the rows emitted directly, gone into fixed rows and discarded are
\* disjoint parts of the rows counted.
C24_CountersBoundedByTotal ==
    /\ 2 * stats.fixed_rows + stats.removed_rows + direct_rows
           <= stats.total_rows
    /\ EmittedDataRows = direct_rows + stats.fixed_rows
    /\ fixed_parts >= 2 * stats.fixed_rows
    /\ discarded_parts >= stats.removed_rows
    /\ direct_rows + fixed_parts + discarded_parts <= stats.total_rows

\* C24 witness: a fixed row assembled from three physical rows and an
\* over-length row removed: total_rows = 4 exceeds 2 * 1 + 1 + 0.
C24_Witness ==
    /\ pc = "loop"
    /\ stats.total_rows = 4
    /\ stats.fixed_rows = 1
    /\ fixed_parts = 3
    /\ stats.removed_rows = 1
    /\ direct_rows = 0
    /\ EmittedDataRows = 1

\* The menus and the largest choice each offers (the smallest is 1).
MenuStates == {"main", "settings", "delimiter", "header_mode"}

MenuMax(p) ==
    CASE p = "main" -> 3
      [] p = "settings" -> 6
      [] p = "delimiter" -> 4
      [] p = "header_mode" -> 2

\* A step in which a menu read a line (menu_line' is the line).
MenuRead == menu_pc \in MenuStates /\ menu_pc' \notin {"io_error", "io_panic"}

\* C25: get_menu_choice(min, max) returns only a value in [min, max]: a line
\* that is not a number, or a number out of range, is rejected (the menu
\* asks again, nothing else changes), a number in range is returned as the
\* choice; so no unreachable!() arm of the main, settings, delimiter or
\* header-mode menu is ever reached.
C25_MenuChoiceInRange ==
    [][/\ menu_pc' # "unreachable"
       /\ MenuRead =>
              LET parsed == ParseU32(trim(menu_line'))
              IN  IF parsed.ok /\ 1 <= parsed.val /\ parsed.val <= MenuMax(menu_pc)
                  THEN choice' = parsed.val
                  ELSE /\ menu_pc' = menu_pc
                       /\ choice' = choice
                       /\ config' = config
                       /\ proc_pc' = proc_pc]_vars

\* C25 witness: the settings menu returned 1, and the delimiter menu has
\* rejected the line "5", a number the settings menu would have accepted.
C25_Witness ==
    /\ menu_pc = "delimiter"
    /\ choice = 1
    /\ menu_line = <<"5", Newline>>

\* C26: a failed processing run is ended outright and never retried on its
\* own.  process_csv is called only by a selection of item 1 of the main
\* menu; while it runs the configuration does not change; a missing input
\* file ends it before any step of the reconstruction and before the output
\* file is touched; after a failure control goes to the pause and then to the
\* main menu with the configuration as it was; the program ends only on the
\* selection of Exit (item 3 of the main menu) or on a terminal I/O error.
C26_FailedRunNotRetried ==
    [][/\ (proc_pc' = "called" /\ proc_pc # "called") =>
              /\ menu_pc = "main"
              /\ choice' = 1
              /\ ParseU32(trim(menu_line')).val = 1
       /\ menu_pc \in {"processing", "pause_main"} => config' = config
       /\ (proc_pc = "called" /\ proc_pc' = "failed") =>
              /\ pc = "start"
              /\ result = Pending
              /\ stats = StatsDefault
              /\ out_file' = Untouched
              /\ UNCHANGED engineVars
       /\ (menu_pc = "processing" /\ proc_pc = "failed") =>
              /\ proc_pc' = "failed"
              /\ menu_pc' \in {"processing", "pause_main", "io_panic"}
       /\ menu_pc = "pause_main" =>
              /\ proc_pc' = proc_pc
              /\ menu_pc' \in {"pause_main", "main", "io_panic"}
       /\ (menu_pc' \notin Running /\ menu_pc \in Running) =>
              \/ menu_pc = "main" /\ choice' = 3 /\ menu_pc' = "exited"
              \/ menu_pc' \in {"io_error", "io_panic"}]_vars

\* C26 witness: a run failed, control is back at the main menu with a
\* configuration the user had changed before the run, and the line read last
\* is still the selection that started the run.
C26_Witness ==
    /\ menu_pc = "main"
    /\ proc_pc = "failed"
    /\ config # ConfigDefault
    /\ choice = 1
    /\ ParseU32(trim(menu_line)).val = 1

====
